---- MODULE Spec2Model ----
(***************************************************************************)
(* zPBPTool (src/main.c): the PBP container tool.  One process run is one  *)
(* command: pack (assemble), unpack (split) or analyze (inspect).  The     *)
(* model keeps the files the commands touch as byte sequences, the header  *)
(* as the packed 40-byte little-endian record the code freads and fwrites, *)
(* and the locals of the running command.                                  *)
(***************************************************************************)
EXTENDS Integers, Sequences, FiniteSets, TLC

\* ------------------------------------------------------------ bounds
\* Longest source file given to pack, in bytes.
MaxLen == 1
\* Most bytes an outside truncation removes from a packed container.
MaxCut == 1
\* Most I/O failures (fopen, fread, fwrite, mkdir) injected in one behaviour.
MaxFaults == 1
\* Most bytes following the header in a container with an arbitrary header.
MaxData == 1
\* Largest version field drawn for the validator's inputs.
MaxVer == 5

\* ------------------------------------------------------------ constants
\* sizeof(PBPHeader)
HeaderSize == 40
\* number of segments (offset[8], default_file_names[8])
NumSegments == 8
\* 2^16: a number wider than TLC's 32-bit integers is kept as two 16-bit limbs
Limb == 65536
\* 'P' and 'B'
ChP == 80
ChB == 66
\* What a read outside a buffer yields (no byte value).
Garbage == -1
\* sizeof(outpath)
PathSize == 4096

Slots == 0..(NumSegments - 1)

\* default_file_names[k], character by character.
default_file_names(k) ==
  <<  <<"P", "A", "R", "A", "M", ".", "S", "F", "O">>,
      <<"I", "C", "O", "N", "0", ".", "P", "N", "G">>,
      <<"I", "C", "O", "N", "1", ".", "P", "M", "F">>,
      <<"P", "I", "C", "0", ".", "P", "N", "G">>,
      <<"P", "I", "C", "1", ".", "P", "N", "G">>,
      <<"S", "N", "D", "0", ".", "A", "T", "3">>,
      <<"D", "A", "T", "A", ".", "P", "S", "P">>,
      <<"D", "A", "T", "A", ".", "P", "S", "A", "R">>  >>[k + 1]

\* ------------------------------------------------------------ bytes
\* A C integer (uint32_t, size_t, long) is the record [hi, lo] that stands for
\* hi * 2^16 + lo, with lo in 0..65535; hi < 0 for a negative long.
W(n) == [hi |-> n \div Limb, lo |-> n % Limb]
WAdd(a, b) == [hi |-> a.hi + b.hi + ((a.lo + b.lo) \div Limb), lo |-> (a.lo + b.lo) % Limb]
WSub(a, b) == [hi |-> a.hi - b.hi + ((a.lo - b.lo) \div Limb), lo |-> (a.lo - b.lo) % Limb]
WLess(a, b) == a.hi < b.hi \/ (a.hi = b.hi /\ a.lo < b.lo)
WLeq(a, b) == ~WLess(b, a)
\* The number as a plain integer (for the small ones: positions in a buffer).
WInt(a) == a.hi * Limb + a.lo

\* UINT32_MAX = 2^32 - 1
MaxU32 == [hi |-> Limb - 1, lo |-> Limb - 1]

\* (uint32_t)x: modulo 2^32
ToU32(a) == [hi |-> a.hi % Limb, lo |-> a.lo]

\* Byte k (0 = least significant) of the uint32_t or uint16_t a: the little-endian
\* layout of the host.
LEByte(a, k) ==
  CASE k = 0 -> a.lo % 256 [] k = 1 -> a.lo \div 256 [] k = 2 -> a.hi % 256 [] OTHER -> a.hi \div 256

\* The packed struct as the 40 bytes fwrite(&header, 1, sizeof(header), out) emits.
HeaderBytes(h) ==
  [k \in 1..HeaderSize |->
     IF k <= 4 THEN h.signature[k - 1]
     ELSE IF k <= 8 THEN LEByte(W(h.version[(k - 5) \div 2]), (k - 5) % 2)
     ELSE LEByte(h.offset[(k - 9) \div 4], (k - 9) % 4)]

\* The struct fread(&header, 1, sizeof(header), f) fills from 40 bytes.
ParseHeader(b) ==
  [signature |-> [k \in 0..3 |-> b[k + 1]],
   version   |-> [k \in 0..1 |-> b[5 + 2 * k] + 256 * b[6 + 2 * k]],
   offset    |-> [k \in Slots |->
                    [hi |-> b[11 + 4 * k] + 256 * b[12 + 4 * k],
                     lo |-> b[9 + 4 * k] + 256 * b[10 + 4 * k]]]]

\* memset(&header, 0, ...) and the fixed signature and version pack writes.
PackInitHeader ==
  [signature |-> [k \in 0..3 |-> CASE k = 0 -> 0 [] k = 1 -> ChP [] k = 2 -> ChB [] OTHER -> ChP],
   version   |-> [k \in 0..1 |-> IF k = 0 THEN 0 ELSE 1],
   offset    |-> [k \in Slots |-> W(0)]]

\* ------------------------------------------------------------ validate_header
validate_header_LooseSig(h) ==
  IF h.signature[1] # ChP \/ h.signature[2] # ChB THEN -1
  ELSE IF h.version[1] # 1 /\ h.version[0] # 0 THEN -2
  ELSE 0

validate_header_SwappedVer(h) ==
  IF h.signature[1] # ChP \/ h.signature[2] # ChB \/ h.signature[3] # ChP THEN -1
  ELSE IF h.version[0] # 1 /\ h.version[1] # 0 THEN -2
  ELSE 0

\* 0 = ok, -1 = invalid signature, -2 = invalid version
validate_header(h) ==
  IF h.signature[1] # ChP \/ h.signature[2] # ChB \/ h.signature[3] # ChP THEN -1
  ELSE IF h.version[1] # 1 /\ h.version[0] # 0 THEN -2
  ELSE 0

\* ------------------------------------------------------------ files and handles
\* A path of the file system: absent, or a file with its bytes.
\* A byte string is held as [data, hole]: its first bytes, all of them when it
\* is at most Window bytes long and Window of them otherwise, and the number of
\* bytes that follow; those are the zeros of a sparse file.
Window == HeaderSize + NumSegments * MaxLen + MaxData
Bytes(d) == [data |-> d, hole |-> W(0)]
NoFile == [exists |-> FALSE, data |-> <<>>, hole |-> W(0)]
File(d) == [exists |-> TRUE, data |-> d, hole |-> W(0)]
FileOf(b) == [exists |-> TRUE, data |-> b.data, hole |-> b.hole]
\* The sparse file of n > Window bytes that starts with the bytes d.
SparseFile(d, n) ==
  [exists |-> TRUE,
   data   |-> [j \in 1..Window |-> IF j <= Len(d) THEN d[j] ELSE 0],
   hole   |-> WSub(n, W(Window))]
\* The length of a file or of a byte string.
FileLen(f) == WAdd(W(Len(f.data)), f.hole)

\* A malloc'ed buffer, or the null pointer.
NullPtr == [null |-> TRUE, data |-> <<>>]
Buf(d) == [null |-> FALSE, data |-> d]

\* FILE* handles: fopen adds one to the open set, fclose removes it.
fopen(handles, h) == handles \cup {h}
fclose(handles, h) == handles \ {h}

\* The byte of buffer b at 0-based position start + j - 1 (content[start + j - 1]);
\* a position outside the buffer yields Garbage.
ByteAt(b, start, j) ==
  LET pos == WAdd(start, W(j))
  IN  IF WLess(pos, W(1)) THEN Garbage
      ELSE IF WLeq(pos, W(Len(b.data))) THEN b.data[WInt(pos)]
      ELSE IF WLeq(pos, FileLen(b)) THEN 0
      ELSE Garbage

\* The n bytes of buffer b from 0-based position start (content + start), as a
\* byte string.
BufRead(b, start, n) ==
  LET m == IF WLess(n, W(Window)) THEN WInt(n) ELSE Window
  IN  [data |-> [j \in 1..m |-> ByteAt(b, start, j)], hole |-> WSub(n, W(m))]

\* ------------------------------------------------------------ read_file_to_buffer
\* A source argument of pack: the literal "NULL", a path that cannot be opened,
\* or a readable file.  outcome: "ok", "io" (fseek, ftell or fread fails) or
\* "malloc" (malloc returns NULL, which malloc(0) may do on an empty file).
\* Returns the buffer (NullPtr on failure), the length and the handles left open.
read_file_to_buffer_EmptyOnMissing(src, outcome) ==
  IF src.kind # "file" THEN [buf |-> Buf(<<>>), len |-> W(0), open |-> {}]
  ELSE IF outcome = "io" \/ outcome = "malloc"
    THEN [buf |-> NullPtr, len |-> W(0), open |-> fclose(fopen({}, "src"), "src")]
  ELSE [buf |-> Buf(src.data), len |-> src.len, open |-> fclose(fopen({}, "src"), "src")]

read_file_to_buffer(src, outcome) ==
  IF src.kind # "file" THEN [buf |-> NullPtr, len |-> W(0), open |-> {}]
  ELSE IF outcome = "io" \/ outcome = "malloc"
    THEN [buf |-> NullPtr, len |-> W(0), open |-> fclose(fopen({}, "src"), "src")]
  ELSE [buf |-> Buf(src.data), len |-> src.len, open |-> fclose(fopen({}, "src"), "src")]

\* ------------------------------------------------------------ unpack_pbp: one segment
\* file_size of segment k (lines 161-170), in uint32_t arithmetic.
SegmentFileSize(h, k, flen) ==
  IF k + 1 < NumSegments
    THEN IF WLess(h.offset[k], h.offset[k + 1])
           THEN WSub(h.offset[k + 1], h.offset[k]) ELSE W(0)
    ELSE IF WLess(h.offset[k], ToU32(flen))
           THEN WSub(ToU32(flen), h.offset[k]) ELSE W(0)

\* long corrected_offset = (long)offset - (long)sizeof(PBPHeader)   (64-bit long)
corrected_offset(h, k) == WSub(h.offset[k], W(HeaderSize))

\* The range test of line 175.
InvalidRange(h, k, flen) ==
  \/ WLess(corrected_offset(h, k), W(0))
  \/ WLess(flen, WAdd(corrected_offset(h, k), SegmentFileSize(h, k, flen)))

\* The dir_path argument of unpack and what the file system holds there: the
\* length of dir_path (at most PathSize - 1); whether it names a directory
\* (mkdir's EEXIST is accepted for a regular file too); alias: the segment whose
\* output path names the very file unpack reads as its container, or -1 when
\* no output path does; old: the segments whose output path names a file that
\* is there before unpack runs (mkdir's EEXIST is accepted for a directory that
\* holds files).
PlainDest == [len |-> 1, isdir |-> TRUE, alias |-> -1, old |-> {}]

Min(a, b) == IF a < b THEN a ELSE b
Max(a, b) == IF a < b THEN b ELSE a

\* outpath after snprintf(outpath, sizeof(outpath), "%s/%s", dir_path, name)
\* (lines 180-181): the first sizeof(outpath) - 1 characters of dir_path "/" name,
\* given as the number of characters of dir_path "/" that are kept and the
\* characters of the name that are kept.  The call's result is not tested.
OutPath(d, k) ==
  [dir  |-> Min(d.len + 1, PathSize - 1),
   name |-> SubSeq(default_file_names(k), 1,
                   Max(0, Min(Len(default_file_names(k)), PathSize - 1 - (d.len + 1))))]

\* fopen(outpath, "wb") cannot succeed.  Where the "/" was kept, outpath lies
\* below dir_path: dir_path is no directory, or nothing of the name was kept
\* and outpath is the directory with a slash.  Where it was not, outpath is
\* dir_path itself: a directory cannot be opened for writing, a regular file
\* can, and is overwritten.
PathUnusable(d, k) ==
  IF OutPath(d, k).dir > d.len
    THEN ~d.isdir \/ OutPath(d, k).name = <<>>
    ELSE d.isdir

\* What a file holds that was there before unpack ran.
OldFile == File(<<255>>)

\* The count handed to fwrite for segment k (line 188): file_size, or 0 when the
\* segment is skipped before it.
SegmentWriteSize(h, k, flen) ==
  IF InvalidRange(h, k, flen) THEN W(0) ELSE SegmentFileSize(h, k, flen)

\* What the calls on an output stream do.  fopen fails; or the fwrite calls are
\* made: short says that one of them returned less than its count, stored is
\* the number of bytes the file holds after fclose.  The stream is buffered and
\* the result of fclose is not looked at, so bytes that fwrite accepted may be
\* lost without any call the program tests having failed.
OpenFail == [kind |-> "open_fail", short |-> FALSE, stored |-> W(0)]
FullWrite(n) == [kind |-> "write", short |-> FALSE, stored |-> n]
WriteOutcomes(n) ==
  {[kind |-> "write", short |-> FALSE, stored |-> W(m)] : m \in 0..WInt(n)}
    \cup {[kind |-> "write", short |-> TRUE, stored |-> W(m)] : m \in 0..(WInt(n) - 1)}

\* What one iteration of the loop of lines 160-192 does for segment k, up to
\* the file at outpath: whether it was opened (wrote), and what it holds then.
UnpackSegmentResult_LeakOnShort(h, k, buf, flen, d, outcome) ==
  LET co   == corrected_offset(h, k)
      none == [file |-> NoFile, wrote |-> FALSE, skipDiag |-> FALSE, ioDiag |-> FALSE,
               open |-> {}, oob |-> FALSE]
  IN  IF SegmentFileSize(h, k, flen) = W(0) THEN none
      ELSE IF InvalidRange(h, k, flen) THEN [none EXCEPT !.skipDiag = TRUE]
      ELSE IF outcome.kind = "open_fail" \/ PathUnusable(d, k)
        THEN [none EXCEPT !.ioDiag = TRUE]
      ELSE [file |-> FileOf(BufRead(buf, co, outcome.stored)), wrote |-> TRUE,
            skipDiag |-> FALSE, ioDiag |-> outcome.short,
            open |-> IF outcome.short THEN fopen({}, "out")
                                      ELSE fclose(fopen({}, "out"), "out"),
            oob |-> (WLess(co, W(0))
                       \/ WLess(FileLen(buf), WAdd(co, SegmentWriteSize(h, k, flen))))]

UnpackSegmentResult(h, k, buf, flen, d, outcome) ==
  LET co   == corrected_offset(h, k)
      none == [file |-> NoFile, wrote |-> FALSE, skipDiag |-> FALSE, ioDiag |-> FALSE,
               open |-> {}, oob |-> FALSE]
  IN  IF SegmentFileSize(h, k, flen) = W(0) THEN none
      ELSE IF InvalidRange(h, k, flen) THEN [none EXCEPT !.skipDiag = TRUE]
      ELSE IF outcome.kind = "open_fail" \/ PathUnusable(d, k)
        THEN [none EXCEPT !.ioDiag = TRUE]
      ELSE [file |-> FileOf(BufRead(buf, co, outcome.stored)), wrote |-> TRUE,
            skipDiag |-> FALSE, ioDiag |-> outcome.short,
            open |-> fclose(fopen({}, "out"), "out"),
            oob |-> (WLess(co, W(0))
                       \/ WLess(FileLen(buf), WAdd(co, SegmentWriteSize(h, k, flen))))]

\* ------------------------------------------------------------ unpack_pbp: lines 123-158
\* outcome: "ok", "open_fail", "hdr_fail" (fread of the header fails), "mkdir_fail",
\* "load_fail" (fseek, ftell, malloc or fread of the content fails).
\* Returns whether the process exited (always with code 1), the header and the
\* content read, and the handles left open.
UnpackBeginResult(f, outcome) ==
  LET opened == fopen({}, "f")
      closed == fclose(opened, "f")
      hdr    == ParseHeader(SubSeq(f.data, 1, HeaderSize))
      fail   == [exit |-> TRUE, header |-> PackInitHeader, content |-> Bytes(<<>>), file_len |-> W(0),
                 open |-> closed]
  IN  IF ~f.exists \/ outcome = "open_fail" THEN [fail EXCEPT !.open = {}]
      ELSE IF WLess(FileLen(f), W(HeaderSize)) \/ outcome = "hdr_fail" THEN fail
      ELSE IF validate_header(hdr) # 0 THEN [fail EXCEPT !.header = hdr]
      ELSE IF outcome = "mkdir_fail" \/ outcome = "load_fail" THEN [fail EXCEPT !.header = hdr]
      ELSE [exit |-> FALSE, header |-> hdr, content |-> [data |-> f.data, hole |-> f.hole],
            file_len |-> FileLen(f),
            open |-> closed]

\* ------------------------------------------------------------ analyze_file
\* The line printed for segment k (lines 89-97): its offset, or NULL.
AnalyzeLine(h, k) ==
  IF k + 1 < NumSegments /\ WLess(h.offset[k], h.offset[k + 1])
    THEN [present |-> TRUE, offset |-> h.offset[k]]
    ELSE [present |-> FALSE, offset |-> W(0)]

NoReport == [k \in Slots |-> [present |-> FALSE, offset |-> W(0)]]

\* outcome: "ok", "open_fail" or "hdr_fail".
AnalyzeResult(f, outcome) ==
  LET opened == fopen({}, "f")
      closed == fclose(opened, "f")
      hdr    == ParseHeader(SubSeq(f.data, 1, HeaderSize))
      fail   == [exit_code |-> 1, printed |-> FALSE, header |-> PackInitHeader,
                 report |-> NoReport, open |-> closed]
  IN  IF ~f.exists \/ outcome = "open_fail" THEN [fail EXCEPT !.open = {}]
      ELSE IF WLess(FileLen(f), W(HeaderSize)) \/ outcome = "hdr_fail" THEN fail
      ELSE IF validate_header(hdr) # 0 THEN [fail EXCEPT !.header = hdr]
      ELSE [exit_code |-> 0, printed |-> TRUE, header |-> hdr,
            report |-> [k \in Slots |-> AnalyzeLine(hdr, k)], open |-> closed]

\* ------------------------------------------------------------ pack_pbp
\* curr_offset += (uint32_t)len
AdvanceOffset(cur, len) == ToU32(WAdd(cur, ToU32(len)))

\* The bytes of the present segments up to slot k - 1, in index order
\* (the loop of lines 243-250 skips sizes[i] == 0).
RECURSIVE ConcatContents(_, _, _)
ConcatContents(cs, sz, k) ==
  IF k = 0 THEN <<>>
  ELSE ConcatContents(cs, sz, k - 1) \o (IF sz[k - 1] = W(0) THEN <<>> ELSE cs[k - 1].data)

\* The bytes pack hands to fwrite, in order: the header (line 237), then every
\* present segment (lines 243-250).
PackImage(h, cs, sz) == HeaderBytes(h) \o ConcatContents(cs, sz, NumSegments)

\* Lines 230-254 on the bytes of PackImage.  The exit code is 1 when fopen fails or an fwrite returns less
\* than its count, whichever call it is, and 0 otherwise; the destination holds
\* the bytes that were stored.  Returns the exit code, the destination file and
\* the handles left open.
PackWriteResult(image, old, outcome) ==
  LET opened == fopen({}, "out")
      closed == fclose(opened, "out")
  IN  IF outcome.kind = "open_fail" THEN [exit_code |-> 1, file |-> old, open |-> {}]
      ELSE [exit_code |-> IF outcome.short THEN 1 ELSE 0,
            file |-> File(SubSeq(image, 1, WInt(outcome.stored))),
            open |-> closed]

\* ------------------------------------------------------------ state
VARIABLES
  cmd,          \* argv[1] of the process that runs or ran last: "none", "pack", "unpack", "analyze", "validate"
  pc,           \* where that process is: "idle", "read", "write", "segments", "validate", "exit"
  exit_code,    \* its exit code once pc = "exit"; -1 before
  i,            \* the loop index of pack's read loop and of unpack's segment loop
  header,       \* PBPHeader header
  curr_offset,  \* pack: uint32_t curr_offset
  contents,     \* pack: unsigned char* contents[8]
  sizes,        \* pack: size_t sizes[8]
  input_paths,  \* pack: what each of the 8 source arguments names
  container,    \* the container file: pack's output_path, unpack's and analyze's input
  destTouched,  \* pack called fopen(output_path, "wb")
  open,         \* the FILE* handles the process holds open
  content,      \* unpack: the whole file in memory, a byte string [data, hole]
  file_len,     \* unpack: long file_len
  outdir,       \* unpack: by segment index k, the file at the outpath computed for k
  diag,         \* unpack: segments for which "Skipping ...: invalid offset/size" was printed
  ioerr,        \* unpack: segments for which "Failed to create/write" was printed
  report,       \* analyze: the line printed per segment
  v,            \* the value validate_header returned last
  faults,       \* I/O failures injected so far
  oobRead,      \* unpack read a byte outside content
  dest,         \* unpack: the dir_path argument (see PlainDest)
  written,      \* unpack: the segments for which fopen(outpath) succeeded and fwrite was called
  tamper,       \* what happened to the container after pack wrote it: "none", "cut", "sig"
  srcLens       \* the lengths of the source files the file system offers to pack

vars == <<cmd, pc, exit_code, i, header, curr_offset, contents, sizes, input_paths,
          container, destTouched, open, content, file_len, outdir, diag, ioerr,
          report, v, faults, oobRead, dest, written, tamper, srcLens>>

packLocals == <<curr_offset, contents, sizes, input_paths, destTouched>>
unpackLocals == <<content, file_len, outdir, diag, ioerr, oobRead, dest, written>>

\* A source argument: its kind ("NULL", "missing", "file"), the file's bytes and
\* its length.
Unset == [kind |-> "unset", data |-> <<>>, len |-> W(0)]
NullArg == [kind |-> "NULL", data |-> <<>>, len |-> W(0)]
Missing == [kind |-> "missing", data |-> <<>>, len |-> W(0)]
SourceFile(d) == [kind |-> "file", data |-> d, len |-> W(Len(d))]

\* The bytes of the source file given for slot k when it is n bytes long: distinct
\* from each other and from every header byte.
SourceData(k, n) == [j \in 1..n |-> 128 + 8 * k + j]

\* What argv[3 + k] may name.
SourceChoices(k) ==
  {NullArg, Missing} \cup {SourceFile(SourceData(k, n)) : n \in srcLens}

\* 2^31 - 40, 2^31 and 2^32 - 1: lengths of source files too long to keep their bytes.
BigLens == {[hi |-> 32767, lo |-> 65496], [hi |-> 32768, lo |-> 0], MaxU32}

\* A source of pack given by its length alone.
SizedChoices == {NullArg} \cup {[kind |-> "file", data |-> <<>>, len |-> n] : n \in {W(1)} \cup BigLens}

\* The outcomes an I/O call may take: a failure only while the fault budget lasts,
\* and only on a container nobody tampered with and a plain destination (a
\* behaviour has one kind of disturbance).
Outcomes(failures) ==
  IF faults < MaxFaults /\ tamper = "none" /\ dest = PlainDest
    THEN {"ok"} \cup failures ELSE {"ok"}
Fault(outcome) == IF outcome = "ok" THEN 0 ELSE 1

\* What argv[3] of unpack may be: a short path to an empty or new directory, or
\* to one that holds all eight files already; and, in a behaviour with no other
\* disturbance: a path so long that only 6 characters of a name fit into
\* outpath; a regular file; a regular file whose path fills outpath; a
\* directory in which DATA.PSP is the container being unpacked.
DestChoices ==
  {PlainDest, [PlainDest EXCEPT !.old = Slots]}
    \cup (IF faults = 0 /\ tamper = "none"
           THEN {[PlainDest EXCEPT !.len = PathSize - 8],
                 [PlainDest EXCEPT !.isdir = FALSE],
                 [PlainDest EXCEPT !.isdir = FALSE, !.len = PathSize - 1],
                 [PlainDest EXCEPT !.alias = NumSegments - 2]}
           ELSE {})

\* The files at the output paths before unpack writes: the container, where an
\* output path names it; the regular file dir_path, where outpath is dir_path
\* itself; the files that were there before.
OutdirBefore(d, f) ==
  [k \in Slots |->
     IF d.alias # -1 /\ OutPath(d, k) = OutPath(d, d.alias) THEN f
     ELSE IF ~d.isdir /\ OutPath(d, k).dir <= d.len THEN OldFile
     ELSE IF d.isdir /\ (\E j \in d.old : OutPath(d, j) = OutPath(d, k)) THEN OldFile
     ELSE NoFile]

\* The outcomes of the calls on an output stream that is to take n bytes, under
\* the same budget.
StreamOutcomes(n) ==
  IF faults < MaxFaults /\ tamper = "none" /\ dest = PlainDest /\ n # W(0)
    THEN {OpenFail} \cup WriteOutcomes(n) ELSE {FullWrite(n)}
StreamFault(outcome, n) == IF outcome = FullWrite(n) THEN 0 ELSE 1

\* The state every specification starts from, but for the container, the header
\* and the command.
InitLocals ==
  /\ exit_code = -1
  /\ i = 0
  /\ curr_offset = W(0)
  /\ contents = [k \in Slots |-> NullPtr]
  /\ sizes = [k \in Slots |-> W(0)]
  /\ input_paths = [k \in Slots |-> Unset]
  /\ destTouched = FALSE
  /\ open = {}
  /\ content = Bytes(<<>>)
  /\ file_len = W(0)
  /\ outdir = [k \in Slots |-> NoFile]
  /\ diag = {}
  /\ ioerr = {}
  /\ report = NoReport
  /\ v = 0
  /\ oobRead = FALSE
  /\ dest = PlainDest
  /\ written = {}
  /\ tamper = "none"

\* No container yet: the session starts with pack, on non-empty sources of one
\* length.
Init ==
  /\ InitLocals
  /\ cmd = "none"
  /\ pc = "idle"
  /\ header = PackInitHeader
  /\ container = NoFile
  /\ faults = 0
  /\ \E n \in 1..MaxLen : srcLens = {n}

\* The same, with empty source files too.
InitPack ==
  /\ InitLocals
  /\ cmd = "none"
  /\ pc = "idle"
  /\ header = PackInitHeader
  /\ container = NoFile
  /\ faults = 0
  /\ \E n \in 1..MaxLen : srcLens = {0, n}

\* The offsets drawn for a container with an arbitrary header: before the end of
\* the header, at it, past it, and far past any file.
OffsetChoices == {W(HeaderSize - 1), W(HeaderSize), W(HeaderSize + 1), MaxU32}

\* The bytes that follow the header in it.
TailData(n) == [j \in 1..n |-> 200 + j]

\* A container lies on disk whose header has the signature and version pack
\* writes and arbitrary offsets; no I/O call fails.
InitHdr ==
  /\ InitLocals
  /\ cmd = "none"
  /\ pc = "idle"
  /\ header = PackInitHeader
  /\ \E offs \in [Slots -> OffsetChoices], n \in 0..MaxData :
       container = File(HeaderBytes([PackInitHeader EXCEPT !.offset = offs]) \o TailData(n))
  /\ faults = MaxFaults
  /\ srcLens = {1}

\* 2^32 + 10 and 2^32 + 41: lengths of containers longer than 4 GiB.
HugeLens == {[hi |-> Limb, lo |-> 10], [hi |-> Limb, lo |-> HeaderSize + 1]}

\* The offsets drawn for the header of such a container: before the end of the
\* header, at it, and far past it.
HugeOffsetChoices == {W(HeaderSize - 1), W(HeaderSize), MaxU32}

\* The same, the container being a sparse file longer than 4 GiB: the header,
\* then zeros.
InitSized ==
  /\ InitLocals
  /\ cmd = "none"
  /\ pc = "idle"
  /\ header = PackInitHeader
  /\ \E offs \in [Slots -> HugeOffsetChoices], flen \in HugeLens :
       container = SparseFile(HeaderBytes([PackInitHeader EXCEPT !.offset = offs]), flen)
  /\ faults = MaxFaults
  /\ srcLens = {1}

\* The signature bytes drawn for the validator: 0, 'B', 'P' and 'Q'.
SigChoices == {0, ChB, ChP, ChP + 1}

\* validate_header is about to be called on an arbitrary header.
InitValidate ==
  /\ InitLocals
  /\ cmd = "validate"
  /\ pc = "validate"
  /\ \E sig \in [0..3 -> SigChoices], ver \in [0..1 -> 0..MaxVer] :
       header = [signature |-> sig, version |-> ver, offset |-> [k \in Slots |-> W(0)]]
  /\ container = NoFile
  /\ faults = 0
  /\ srcLens = {1}

\* ------------------------------------------------------------ pack
\* main: "pack" with 8 sources; pack_pbp lines 198-210.
PackStart ==
  /\ pc = "idle"
  /\ ~container.exists
  /\ cmd' = "pack"
  /\ pc' = "read"
  /\ i' = 0
  /\ header' = PackInitHeader
  /\ curr_offset' = W(HeaderSize)
  /\ UNCHANGED <<exit_code, contents, sizes, input_paths, container, destTouched, open,
                 unpackLocals, report, v, faults, tamper, srcLens>>

\* One iteration of the loop of lines 211-228 on a source of known bytes.
PackRead ==
  /\ cmd = "pack"
  /\ pc = "read"
  /\ i < NumSegments
  /\ \E src \in SourceChoices(i) :
     \E outcome \in Outcomes({"io"}) \cup (IF src.kind = "file" /\ Len(src.data) = 0
                                           THEN {"malloc"} ELSE {}) :
       LET r == read_file_to_buffer(src, outcome) IN
       /\ input_paths' = [input_paths EXCEPT ![i] = src]
       /\ header' = [header EXCEPT !.offset[i] = curr_offset]
       /\ faults' = faults + (IF outcome = "io" /\ src.kind = "file" THEN 1 ELSE 0)
       /\ IF src.kind = "NULL"
            THEN /\ contents' = [contents EXCEPT ![i] = NullPtr]
                 /\ sizes' = [sizes EXCEPT ![i] = W(0)]
                 /\ i' = i + 1
                 /\ pc' = IF i + 1 = NumSegments THEN "write" ELSE "read"
                 /\ UNCHANGED <<curr_offset, exit_code, open>>
          ELSE IF r.buf.null
            THEN /\ pc' = "exit"
                 /\ exit_code' = 1
                 /\ open' = r.open
                 /\ UNCHANGED <<contents, sizes, curr_offset, i>>
          ELSE /\ contents' = [contents EXCEPT ![i] = r.buf]
               /\ sizes' = [sizes EXCEPT ![i] = r.len]
               /\ curr_offset' = AdvanceOffset(curr_offset, r.len)
               /\ i' = i + 1
               /\ pc' = IF i + 1 = NumSegments THEN "write" ELSE "read"
               /\ open' = r.open
               /\ UNCHANGED exit_code
  /\ UNCHANGED <<cmd, container, destTouched, unpackLocals, report, v, tamper, srcLens>>

\* The same iteration on a source given by its length alone (its bytes are not
\* kept): the offset table of sources up to 4 GiB long.
PackReadSized ==
  /\ cmd = "pack"
  /\ pc = "read"
  /\ i < NumSegments
  /\ \E src \in SizedChoices :
       LET r == read_file_to_buffer(src, "ok") IN
       /\ input_paths' = [input_paths EXCEPT ![i] = src]
       /\ header' = [header EXCEPT !.offset[i] = curr_offset]
       /\ contents' = [contents EXCEPT ![i] = IF src.kind = "NULL" THEN NullPtr ELSE r.buf]
       /\ sizes' = [sizes EXCEPT ![i] = IF src.kind = "NULL" THEN W(0) ELSE r.len]
       /\ curr_offset' = IF src.kind = "NULL" THEN curr_offset
                                              ELSE AdvanceOffset(curr_offset, r.len)
  /\ i' = i + 1
  /\ pc' = IF i + 1 = NumSegments THEN "write" ELSE "read"
  /\ UNCHANGED <<cmd, exit_code, container, destTouched, open, unpackLocals, report, v,
                 faults, tamper, srcLens>>

\* Lines 230-254 and main's return 0.
PackWrite ==
  /\ cmd = "pack"
  /\ pc = "write"
  /\ LET image == PackImage(header, contents, sizes) IN
     \E outcome \in StreamOutcomes(W(Len(image))) :
       LET r == PackWriteResult(image, container, outcome) IN
       /\ container' = r.file
       /\ open' = open \cup r.open
       /\ exit_code' = r.exit_code
       /\ faults' = faults + StreamFault(outcome, W(Len(image)))
  /\ destTouched' = TRUE
  /\ pc' = "exit"
  /\ UNCHANGED <<cmd, i, header, curr_offset, contents, sizes, input_paths,
                 unpackLocals, report, v, tamper, srcLens>>

\* Outside the tool: the container pack stored in full loses its last bytes.
Truncate ==
  /\ cmd = "pack"
  /\ pc = "exit"
  /\ exit_code = 0
  /\ tamper = "none"
  /\ faults = 0
  /\ \E cut \in 1..MaxCut :
       /\ cut <= Len(container.data)
       /\ container' = File(SubSeq(container.data, 1, Len(container.data) - cut))
  /\ tamper' = "cut"
  /\ UNCHANGED <<cmd, pc, exit_code, i, header, packLocals, open, unpackLocals,
                 report, v, faults, srcLens>>

\* Outside the tool: the last signature byte of the container pack stored in full
\* is overwritten.
Corrupt ==
  /\ cmd = "pack"
  /\ pc = "exit"
  /\ exit_code = 0
  /\ tamper = "none"
  /\ faults = 0
  /\ container' = File([container.data EXCEPT ![4] = 0])
  /\ tamper' = "sig"
  /\ UNCHANGED <<cmd, pc, exit_code, i, header, packLocals, open, unpackLocals,
                 report, v, faults, srcLens>>

\* A new process may start: none ran yet, or pack finished and wrote the container.
Ready == pc = "idle" \/ (cmd = "pack" /\ pc = "exit" /\ exit_code = 0)

\* ------------------------------------------------------------ unpack
\* main: "unpack"; unpack_pbp lines 123-158.
UnpackBegin ==
  /\ Ready
  /\ container.exists
  /\ \E d \in DestChoices :
     \E outcome \in IF d = PlainDest
                      THEN Outcomes({"open_fail", "hdr_fail", "mkdir_fail", "load_fail"})
                      ELSE {"ok"} :
       LET r == UnpackBeginResult(container, outcome) IN
       /\ dest' = d
       /\ outdir' = OutdirBefore(d, container)
       /\ header' = r.header
       /\ content' = r.content
       /\ file_len' = r.file_len
       /\ open' = r.open
       /\ pc' = IF r.exit THEN "exit" ELSE "segments"
       /\ exit_code' = IF r.exit THEN 1 ELSE -1
       /\ faults' = faults + Fault(outcome)
  /\ cmd' = "unpack"
  /\ i' = 0
  /\ UNCHANGED <<packLocals, container, diag, ioerr, oobRead, written, report, v, tamper, srcLens>>

\* One iteration of the loop of lines 160-192; after the last, free(content)
\* and main's return 0.  The file opened is the one outpath names: the file of
\* every segment with the same outpath, and the container when it has that path.
UnpackSegment ==
  /\ cmd = "unpack"
  /\ pc = "segments"
  /\ i < NumSegments
  /\ \E outcome \in StreamOutcomes(SegmentWriteSize(header, i, file_len)) :
       LET r == UnpackSegmentResult(header, i, content, file_len, dest, outcome) IN
       /\ outdir' = IF r.wrote
                       THEN [k \in Slots |-> IF OutPath(dest, k) = OutPath(dest, i)
                                               THEN r.file ELSE outdir[k]]
                       ELSE outdir
       /\ container' = IF r.wrote /\ dest.alias # -1
                               /\ OutPath(dest, dest.alias) = OutPath(dest, i)
                          THEN r.file ELSE container
       /\ diag' = IF r.skipDiag THEN diag \cup {i} ELSE diag
       /\ ioerr' = IF r.ioDiag THEN ioerr \cup {i} ELSE ioerr
       /\ open' = open \cup r.open
       /\ oobRead' = (oobRead \/ r.oob)
       /\ written' = IF r.wrote THEN written \cup {i} ELSE written
       /\ faults' = faults + StreamFault(outcome, SegmentWriteSize(header, i, file_len))
  /\ i' = i + 1
  /\ pc' = IF i + 1 = NumSegments THEN "exit" ELSE "segments"
  /\ exit_code' = IF i + 1 = NumSegments THEN 0 ELSE -1
  /\ UNCHANGED <<cmd, header, packLocals, content, file_len, dest, report, v, tamper, srcLens>>

\* ------------------------------------------------------------ analyze
\* main: "analyze"; analyze_file and main's return 0.
Analyze ==
  /\ Ready
  /\ container.exists
  /\ \E outcome \in Outcomes({"open_fail", "hdr_fail"}) :
       LET r == AnalyzeResult(container, outcome) IN
       /\ header' = r.header
       /\ report' = r.report
       /\ open' = r.open
       /\ exit_code' = r.exit_code
       /\ faults' = faults + Fault(outcome)
  /\ cmd' = "analyze"
  /\ pc' = "exit"
  /\ UNCHANGED <<i, packLocals, container, unpackLocals, v, tamper, srcLens>>

\* ------------------------------------------------------------ validate
\* validate_header applied to the header at hand.
Validate ==
  /\ cmd = "validate"
  /\ pc = "validate"
  /\ v' = validate_header(header)
  /\ pc' = "exit"
  /\ UNCHANGED <<cmd, exit_code, i, header, packLocals, container, open, unpackLocals,
                 report, faults, tamper, srcLens>>

\* ------------------------------------------------------------ specifications
\* pack, then possibly a truncation or a corruption, then unpack or analyze of what pack wrote.
Next == PackStart \/ PackRead \/ PackWrite \/ Truncate \/ Corrupt \/ UnpackBegin \/ UnpackSegment \/ Analyze

Spec == Init /\ [][Next]_vars

\* pack alone, empty source files included.
NextPack == PackStart \/ PackRead \/ PackWrite

SpecPack == InitPack /\ [][NextPack]_vars

\* pack's offset table, for sources given by their length.
NextOffsets == PackStart \/ PackReadSized

SpecOffsets == Init /\ [][NextOffsets]_vars

\* unpack or analyze of a container with an arbitrary header.
NextHdr == UnpackBegin \/ UnpackSegment \/ Analyze

SpecHdr == InitHdr /\ [][NextHdr]_vars

\* unpack or analyze of a sparse container longer than 4 GiB.
SpecSized == InitSized /\ [][NextHdr]_vars

\* validate_header on an arbitrary header.
NextValidate == Validate

SpecValidate == InitValidate /\ [][NextValidate]_vars

\* ------------------------------------------------------------ properties
\* The header of the container on disk (it holds at least the 40 header bytes).
DiskHeader == ParseHeader(SubSeq(container.data, 1, HeaderSize))
DiskLen == FileLen(container)

\* The length the offset resolver gives segment k of header h in a file of flen bytes.
ResolverLength(h, k, flen) ==
  IF k < NumSegments - 1
    THEN IF WLess(h.offset[k], h.offset[k + 1]) THEN WSub(h.offset[k + 1], h.offset[k]) ELSE W(0)
    ELSE IF WLess(h.offset[k], flen) THEN WSub(flen, h.offset[k]) ELSE W(0)

\* The corrected range of segment k lies inside a buffer of flen bytes.
RangeInside(h, k, flen) ==
  /\ WLeq(W(0), WSub(h.offset[k], W(HeaderSize)))
  /\ WLeq(WAdd(WSub(h.offset[k], W(HeaderSize)), ResolverLength(h, k, flen)), flen)

\* The file <dir_path>/<default_file_names[k]>.
CanonicalFile(k) ==
  IF dest.isdir /\ OutPath(dest, k) = [dir |-> dest.len + 1, name |-> default_file_names(k)]
    THEN outdir[k] ELSE NoFile

UnpackDone == cmd = "unpack" /\ pc = "exit" /\ exit_code = 0
AnalyzeDone == cmd = "analyze" /\ pc = "exit" /\ exit_code = 0

\* C1: round trip.  After pack of 8 non-empty sources and unpack of the container
\* it wrote (no truncation, no I/O failure), the file unpack wrote for every
\* segment holds exactly the bytes of that source.
C1_RoundTrip ==
  (UnpackDone /\ tamper = "none" /\ faults = 0
     /\ \A k \in Slots : input_paths[k].kind = "file" /\ Len(input_paths[k].data) > 0)
  => \A k \in Slots : CanonicalFile(k) = File(input_paths[k].data)

\* C2: presence law of analyze.  For a validated header and any file length,
\* segment k is reported absent iff its resolved length is 0: for k < 7 iff
\* offsets[k+1] <= offsets[k], for k = 7 iff file_length <= offsets[7].
C2_PresenceLaw ==
  AnalyzeDone =>
    \A k \in Slots :
      (~report[k].present) <=>
        (IF k < NumSegments - 1 THEN WLeq(DiskHeader.offset[k + 1], DiskHeader.offset[k])
                                ELSE WLeq(DiskLen, DiskHeader.offset[k]))

\* C3: pack then analyze.  analyze of the file pack wrote (no I/O failure, no
\* tampering) reports segment k present exactly when source k was not NULL.
C3_PackThenAnalyze ==
  (AnalyzeDone /\ tamper = "none" /\ faults = 0) =>
    \A k \in Slots : report[k].present <=> (input_paths[k].kind # "NULL")

\* bytes 1..3 of the signature are 'P', 'B', 'P'
SigOk(h) == h.signature[1] = ChP /\ h.signature[2] = ChB /\ h.signature[3] = ChP

Validated == cmd = "validate" /\ pc = "exit"

\* C4: validate_header returns InvalidSignature (-1) iff signature bytes 1..3 are
\* not 'P','B','P', whatever byte 0 is; otherwise InvalidVersion (-2) iff
\* version[1] # 1 and version[0] # 0; otherwise Ok (0).  The header pack writes
\* is accepted.
C4_ValidateLaw ==
  Validated =>
    /\ (v = -1) <=> ~SigOk(header)
    /\ SigOk(header) => ((v = -2) <=> (header.version[1] # 1 /\ header.version[0] # 0))
    /\ (v = 0) <=> (SigOk(header) /\ ~(header.version[1] # 1 /\ header.version[0] # 0))
    /\ (\A k \in 1..3 : header.signature[k] = PackInitHeader.signature[k])
         /\ header.version = PackInitHeader.version => v = 0

\* A header is rejected for its version though its signature is fine and byte 0
\* is not the 0 pack writes.
C4_Witness == Validated /\ v = -2 /\ header.signature[0] # 0

\* C5 as stated: with signature [x,'P','B','P'], version {0,1} is accepted for
\* every x, version {5,0} (version[0] = 5, version[1] = 0) is accepted and
\* version {5,2} is rejected.
C5_ExamplesAsStated ==
  (Validated /\ SigOk(header)) =>
    /\ (header.version[0] = 0 /\ header.version[1] = 1) => v = 0
    /\ (header.version[0] = 5 /\ header.version[1] = 0) => v = 0
    /\ (header.version[0] = 5 /\ header.version[1] = 2) => v # 0

\* C5 amended: with signature [x,'P','B','P'], version {0,1} is accepted for
\* every x, version {5,0} (version[0] = 5, version[1] = 0) is rejected with
\* InvalidVersion, as is {5,2}; the pair with the low field 0, {0,5}, is accepted.
C5_ExamplesAmended ==
  (Validated /\ SigOk(header)) =>
    /\ (header.version[0] = 0 /\ header.version[1] = 1) => v = 0
    /\ (header.version[0] = 5 /\ header.version[1] = 0) => v = -2
    /\ (header.version[0] = 5 /\ header.version[1] = 2) => v = -2
    /\ (header.version[0] = 0 /\ header.version[1] = 5) => v = 0

\* Version {5,0} was validated under a good signature.
C5_Witness ==
  Validated /\ SigOk(header) /\ header.version[0] = 5 /\ header.version[1] = 0
    /\ header.signature[0] = ChP + 1

\* C6: truncated container.  When the packed container was cut so that
\* 40 <= file_length < offsets[7], unpack (no I/O failure) prints the skip
\* diagnostic for segment 7 and writes no file for it, writes every earlier
\* segment whose range is valid with the bytes of its source, and exits 0.
C6_TruncatedUnpack ==
  (cmd = "unpack" /\ pc = "exit" /\ tamper = "cut" /\ faults = 0
     /\ Len(container.data) >= HeaderSize
     /\ WLess(DiskLen, DiskHeader.offset[NumSegments - 1]))
  => /\ exit_code = 0
     /\ (NumSegments - 1) \in diag
     /\ ~outdir[NumSegments - 1].exists
     /\ \A k \in 0..(NumSegments - 2) :
          (ResolverLength(DiskHeader, k, DiskLen) # W(0) /\ RangeInside(DiskHeader, k, DiskLen))
            => outdir[k] = File(input_paths[k].data)

\* pack could not read a source that is not NULL
ReadFailed ==
  \E k \in Slots : input_paths[k].kind \in {"missing", "file"} /\ contents[k].null

\* C7: pack reads all 8 sources before it touches the destination.  Once a
\* source that is not NULL could not be read the process has exited with code 1
\* and the destination was never opened nor written; the destination is opened
\* only when every source is NULL or was read in full.
C7_SourcesBeforeDest ==
  /\ (cmd = "pack" /\ ReadFailed)
       => (pc = "exit" /\ exit_code = 1 /\ ~destTouched /\ container = NoFile)
  /\ destTouched =>
       \A k \in Slots :
         \/ input_paths[k].kind = "NULL"
         \/ /\ input_paths[k].kind = "file"
            /\ ~contents[k].null
            /\ contents[k].data = input_paths[k].data

\* The third source could not be read after two that were.
C7_Witness ==
  /\ cmd = "pack" /\ pc = "exit" /\ i = 2 /\ ReadFailed
  /\ input_paths[0].kind = "file" /\ input_paths[1].kind = "file"

\* C8: range safety of unpack.  For a validated header and any file length,
\* every segment unpack wrote has corrected_offset >= 0 and
\* corrected_offset + length <= file_length, and no byte outside the buffer
\* was read; a segment of non-zero length (offsets[k+1] - offsets[k], or
\* file_length - offsets[7]) that violates this got the skip diagnostic and was
\* not written; and a run that entered the loop ends only after index 7, with
\* exit code 0.
C8_RangeSafety ==
  (cmd = "unpack" /\ (pc = "segments" \/ exit_code = 0)) =>
    /\ ~oobRead
    /\ \A k \in Slots :
         /\ k \in written =>
              /\ k < i
              /\ RangeInside(header, k, file_len)
              /\ \A j \in 1..Len(outdir[k].data) : outdir[k].data[j] # Garbage
         /\ (k < i /\ ResolverLength(header, k, file_len) # W(0)
               /\ ~RangeInside(header, k, file_len))
              => (k \in diag /\ k \notin written)
    /\ pc = "exit" => i = NumSegments

\* The lengths of the sources in the slots below k, added up.
RECURSIVE SumBelow(_)
SumBelow(k) == IF k = 0 THEN W(0) ELSE WAdd(SumBelow(k - 1), sizes[k - 1])

\* C9: pack's offset table.  The offset stored for slot k is 40 plus the sum of
\* the lengths of the sources below k that are not NULL; so offsets[0] = 40, the
\* offsets do not decrease, and a NULL slot k < 7 has offsets[k] = offsets[k+1].
C9_OffsetTable ==
  cmd = "pack" =>
    \A k \in Slots :
      /\ k < i => header.offset[k] = WAdd(W(HeaderSize), SumBelow(k))
      /\ k + 1 < i => WLeq(header.offset[k], header.offset[k + 1])
      /\ (k + 1 < i /\ input_paths[k].kind = "NULL") => header.offset[k] = header.offset[k + 1]

\* C10: resource release.  When a process has exited no FILE* it opened is
\* still open, whatever the exit path; and between two iterations of unpack's
\* segment loop, and of pack's read loop, none is open either.
C10_HandlesReleased ==
  /\ pc = "exit" => open = {}
  /\ (cmd = "unpack" /\ pc = "segments") => open = {}
  /\ (cmd = "pack" /\ pc \in {"read", "write"}) => open = {}

\* unpack ended after a short write to one output file and a full write to another.
C10_Witness ==
  /\ UnpackDone /\ dest = PlainDest
  /\ \E k \in ioerr : outdir[k].exists
  /\ \E k \in Slots : k \notin ioerr /\ outdir[k].exists

====
